---- MODULE Spec2Model ----
(***************************************************************************)
(* Model of the stream handler of papyrus_consensus                        *)
(* (crates/sequencing/papyrus_consensus/src/stream_handler.rs).            *)
(*                                                                         *)
(* A StreamHandler reads StreamMessage frames from one input channel,      *)
(* keeps a StreamData record per stream_id, sends the receiver of a fresh  *)
(* per-stream channel on its own sender when a stream is first seen, and   *)
(* pushes the messages of each stream on that channel in message_id order. *)
(***************************************************************************)
EXTENDS Integers, Sequences, FiniteSets, TLC

(***************************************************************************)
(* Bounds of the model.                                                    *)
(***************************************************************************)
\* stream ids are 1..NumStreams
NumStreams == 2
\* message ids are 0..MaxMessageId
MaxMessageId == 2
\* number of frames read from the input channel
MaxFrames == 3
\* buffer of each per-stream channel (100 in the source, scaled down so that
\* a full channel is reachable)
CHANNEL_BUFFER_LENGTH == 1
\* buffer of the channel the handler sends receivers on (chosen by the caller
\* of StreamHandler::new)
ANNOUNCE_BUFFER_LENGTH == 0

Streams == 1..NumStreams
MessageIds == 0..MaxMessageId

\* Option<MessageId>::None
None == -1

\* StreamMessage<T>. The handler never looks into the content T of a message,
\* so the content of the n-th frame of the input is taken to be n: every
\* frame is told apart from every other, also from one with the same ids.
Headers == [stream_id : Streams, message_id : MessageIds, fin : BOOLEAN]
StreamMessage(header, n) ==
    [stream_id |-> header.stream_id, message_id |-> header.message_id,
     fin |-> header.fin, message |-> n]

VARIABLES
    stream_data,   \* StreamHandler.stream_data: HashMap<StreamId, StreamData>
    chans,         \* every per-stream channel created so far, in creation order
    announce,      \* the queue of StreamHandler.sender (receivers not yet taken)
    held,          \* the per-stream receivers the subscriber has taken
    pc,            \* "listen" while the task runs, "panicked" after a panic,
                   \* "dropped" once the task was cancelled and the handler dropped
    input_closed,  \* the sending end of the input channel has been dropped
    announce_rx_dropped, \* the subscriber has dropped the receiving end of
                   \* the channel of receivers
    announced,     \* history: the channels whose receiver was sent, in order
    fed            \* history: the frames put on the input channel, in order

vars == <<stream_data, chans, announce, held, pc, input_closed,
          announce_rx_dropped, announced, fed>>

(***************************************************************************)
(* futures::channel::mpsc with a single sender: a channel of buffer b      *)
(* accepts b + 1 messages before try_send reports it full.                 *)
(***************************************************************************)
Capacity(buffer) == buffer + 1

\* BTreeMap::new
EmptyMap == [x \in {} |-> x]

\* StreamData::new
NewStreamData(sender) ==
    [next_message_id |-> 0,
     fin_message_id  |-> None,
     max_message_id  |-> 0,
     sender          |-> sender,
     message_buffer  |-> EmptyMap]

\* mpsc::channel(CHANNEL_BUFFER_LENGTH) for stream s; log is the history of
\* what happened on the channel.
NewChannel(s) ==
    [stream_id |-> s, queue |-> <<>>, closed |-> FALSE, rx_dropped |-> FALSE,
     log |-> <<>>]

\* one entry of a channel's history
AnnounceEvent == [ev |-> "announce"]
\* the closing entry keeps the counters of the record that is being removed
CloseEvent(data) ==
    [ev |-> "close",
     next_message_id |-> data.next_message_id,
     fin_message_id |-> data.fin_message_id]
SendEvent(m) ==
    [ev |-> "send", message_id |-> m.message_id, message |-> m.message, fin |-> m.fin]

\* BTreeMap::remove / insert on the message buffer, HashMap::remove / insert
MapRemove(m, k) == [x \in DOMAIN m \ {k} |-> m[x]]
MapInsert(m, k, v) == [x \in DOMAIN m \cup {k} |-> IF x = k THEN v ELSE m[x]]

(***************************************************************************)
(* The handler proper, as functions of a working state                     *)
(*   w = [data, chan, ok]                                                  *)
(* data: the StreamData of the frame's stream, chan: its channel, ok:      *)
(* FALSE once an expect() has panicked.                                    *)
(***************************************************************************)

\* Sender::try_send on a per-stream channel: Ok unless the channel is full
\* or its receiver has been dropped
TrySendOk(chan) ==
    ~chan.rx_dropped /\ Len(chan.queue) < Capacity(CHANNEL_BUFFER_LENGTH)

\* send without the increment of next_message_id
Send_NoIncrement(w, message) ==
    IF TrySendOk(w.chan)
    THEN [w EXCEPT !.chan.queue = Append(@, message.message),
                   !.chan.log = Append(@, SendEvent(message))]
    ELSE [w EXCEPT !.ok = FALSE]

\* send pushing the message a second time after the first try_send
Send_Twice(w, message) ==
    IF TrySendOk(w.chan)
    THEN [w EXCEPT !.chan.queue = Append(Append(@, message.message), message.message),
                   !.chan.log = Append(Append(@, SendEvent(message)), SendEvent(message)),
                   !.data.next_message_id = @ + 1]
    ELSE [w EXCEPT !.ok = FALSE]

\* StreamHandler::send
Send(w, message) ==
    IF TrySendOk(w.chan)
    THEN [w EXCEPT !.chan.queue = Append(@, message.message),
                   !.chan.log = Append(@, SendEvent(message)),
                   !.data.next_message_id = @ + 1]
    ELSE [w EXCEPT !.ok = FALSE]

\* process_buffer taking the lowest buffered id instead of next_message_id
RECURSIVE process_buffer_PopFirst(_)
process_buffer_PopFirst(w) ==
    IF w.ok /\ DOMAIN w.data.message_buffer # {}
    THEN LET k == CHOOSE x \in DOMAIN w.data.message_buffer :
                      \A y \in DOMAIN w.data.message_buffer : x <= y
             w1 == [w EXCEPT !.data.message_buffer = MapRemove(@, k)]
         IN process_buffer_PopFirst(Send(w1, w.data.message_buffer[k]))
    ELSE w

\* process_buffer reading the buffered message (get) without removing it
RECURSIVE process_buffer_Peek(_)
process_buffer_Peek(w) ==
    IF w.ok /\ w.data.next_message_id \in DOMAIN w.data.message_buffer
    THEN process_buffer_Peek(Send(w, w.data.message_buffer[w.data.next_message_id]))
    ELSE w

\* process_buffer with an if in place of the while: one message at most
process_buffer_Once(w) ==
    IF w.ok /\ w.data.next_message_id \in DOMAIN w.data.message_buffer
    THEN LET message == w.data.message_buffer[w.data.next_message_id]
             w1 == [w EXCEPT !.data.message_buffer = MapRemove(@, w.data.next_message_id)]
         IN Send(w1, message)
    ELSE w

\* StreamHandler::process_buffer
RECURSIVE process_buffer(_)
process_buffer(w) ==
    IF w.ok /\ w.data.next_message_id \in DOMAIN w.data.message_buffer
    THEN LET message == w.data.message_buffer[w.data.next_message_id]
             w1 == [w EXCEPT !.data.message_buffer = MapRemove(@, w.data.next_message_id)]
         IN process_buffer(Send(w1, message))
    ELSE w

\* store with insert alone: the later frame replaces the buffered one
Store_Overwrite(data, message) ==
    [data EXCEPT !.message_buffer = MapInsert(@, message.message_id, message)]

\* StreamHandler::store
Store(data, message) ==
    IF message.message_id \in DOMAIN data.message_buffer
    THEN data
    ELSE [data EXCEPT !.message_buffer = MapInsert(@, message.message_id, message)]

\* max_message_id left as it is
UpdateMax_Never(data, message) ==
    data

\* max_message_id updated only by the frames that are not beyond the fin
UpdateMax_UnlessBeyondFin(data, message) ==
    IF data.fin_message_id # None /\ message.message_id > data.fin_message_id
    THEN data
    ELSE IF data.max_message_id < message.message_id
    THEN [data EXCEPT !.max_message_id = message.message_id]
    ELSE data

\* handle_message, lines 112-114
UpdateMax(data, message) ==
    IF data.max_message_id < message.message_id
    THEN [data EXCEPT !.max_message_id = message.message_id]
    ELSE data

\* fin_message_id assigned from the flag of every frame
SetFin_FromFlag(data, message) ==
    [data EXCEPT !.fin_message_id = IF message.fin THEN message.message_id ELSE None]

\* handle_message, lines 116-117
SetFin(data, message) ==
    IF message.fin
    THEN [data EXCEPT !.fin_message_id = message.message_id]
    ELSE data

\* handle_message, line 118: the fin is below a message already seen
FinBelowMax(data, message) ==
    message.fin /\ data.max_message_id > message.message_id

\* the test of line 130 left out
BeyondFin_Never(data, message) ==
    FALSE

\* handle_message, line 130: message_id > fin_message_id.unwrap_or(u64::MAX)
BeyondFin(data, message) ==
    data.fin_message_id # None /\ message.message_id > data.fin_message_id

\* the close test without its fin half
ShouldClose_BufferEmpty(data) ==
    DOMAIN data.message_buffer = {}

\* the close test on the counters: the fin has been passed
ShouldClose_FinPassed(data) ==
    data.fin_message_id # None /\ data.next_message_id > data.fin_message_id

\* handle_message, line 150
ShouldClose(data) ==
    DOMAIN data.message_buffer = {} /\ data.fin_message_id # None

\* close_channel left out
CloseChannel_Noop(chan, data) ==
    chan

\* Sender::close_channel, called for the record data that owns the sender
CloseChannel(chan, data) ==
    [chan EXCEPT !.closed = TRUE, !.log = Append(@, CloseEvent(data))]

(***************************************************************************)
(* handle_message from line 112 on: r = [data, chan, ok, remove], remove   *)
(* being TRUE when the record is taken out of stream_data.                 *)
(***************************************************************************)
\* handle_message with the last test written as "differs from" instead of
\* "greater than": a frame below next_message_id is stored
HandleData_StoreStale(data, chan, message) ==
    LET d1 == SetFin(UpdateMax(data, message), message)
        keep(d, c, ok) == [data |-> d, chan |-> c, ok |-> ok, remove |-> FALSE]
    IN  IF FinBelowMax(d1, message) THEN keep(d1, chan, TRUE)
        ELSE IF BeyondFin(d1, message) THEN keep(d1, chan, TRUE)
        ELSE IF message.message_id = d1.next_message_id
        THEN LET w0 == [data |-> d1, chan |-> chan, ok |-> TRUE]
                 w1 == Send(w0, message)
                 w2 == process_buffer(w1)
             IN  IF w2.ok /\ ShouldClose(w2.data)
                 THEN [data |-> w2.data, chan |-> CloseChannel(w2.chan, w2.data),
                       ok |-> TRUE, remove |-> TRUE]
                 ELSE keep(w2.data, w2.chan, w2.ok)
        ELSE keep(Store(d1, message), chan, TRUE)

\* the handling with a close added to the branch of the stale ids, the
\* record left in the map
HandleData_CloseStale(data, chan, message) ==
    LET d1 == SetFin(UpdateMax(data, message), message)
        keep(d, c, ok) == [data |-> d, chan |-> c, ok |-> ok, remove |-> FALSE]
    IN  IF FinBelowMax(d1, message) THEN keep(d1, chan, TRUE)
        ELSE IF BeyondFin(d1, message) THEN keep(d1, chan, TRUE)
        ELSE IF message.message_id = d1.next_message_id
        THEN LET w0 == [data |-> d1, chan |-> chan, ok |-> TRUE]
                 w1 == Send(w0, message)
                 w2 == process_buffer(w1)
             IN  IF w2.ok /\ ShouldClose(w2.data)
                 THEN [data |-> w2.data, chan |-> CloseChannel(w2.chan, w2.data),
                       ok |-> TRUE, remove |-> TRUE]
                 ELSE keep(w2.data, w2.chan, w2.ok)
        ELSE IF message.message_id > d1.next_message_id
        THEN keep(Store(d1, message), chan, TRUE)
        ELSE IF ShouldClose(d1)
        THEN keep(d1, CloseChannel(chan, d1), TRUE)
        ELSE keep(d1, chan, TRUE)

\* the handling with a panic in place of the warning for a stale id
HandleData_PanicStale(data, chan, message) ==
    LET d1 == SetFin(UpdateMax(data, message), message)
        keep(d, c, ok) == [data |-> d, chan |-> c, ok |-> ok, remove |-> FALSE]
    IN  IF FinBelowMax(d1, message) THEN keep(d1, chan, TRUE)
        ELSE IF BeyondFin(d1, message) THEN keep(d1, chan, TRUE)
        ELSE IF message.message_id = d1.next_message_id
        THEN LET w0 == [data |-> d1, chan |-> chan, ok |-> TRUE]
                 w1 == Send(w0, message)
                 w2 == process_buffer(w1)
             IN  IF w2.ok /\ ShouldClose(w2.data)
                 THEN [data |-> w2.data, chan |-> CloseChannel(w2.chan, w2.data),
                       ok |-> TRUE, remove |-> TRUE]
                 ELSE keep(w2.data, w2.chan, w2.ok)
        ELSE IF message.message_id > d1.next_message_id
        THEN keep(Store(d1, message), chan, TRUE)
        ELSE keep(d1, chan, FALSE)

HandleData(data, chan, message) ==
    LET d1 == SetFin(UpdateMax(data, message), message)
        keep(d, c, ok) == [data |-> d, chan |-> c, ok |-> ok, remove |-> FALSE]
    IN  IF FinBelowMax(d1, message) THEN keep(d1, chan, TRUE)
        ELSE IF BeyondFin(d1, message) THEN keep(d1, chan, TRUE)
        ELSE IF message.message_id = d1.next_message_id
        THEN LET w0 == [data |-> d1, chan |-> chan, ok |-> TRUE]
                 w1 == Send(w0, message)
                 w2 == process_buffer(w1)
             IN  IF w2.ok /\ ShouldClose(w2.data)
                 THEN [data |-> w2.data, chan |-> CloseChannel(w2.chan, w2.data),
                       ok |-> TRUE, remove |-> TRUE]
                 ELSE keep(w2.data, w2.chan, w2.ok)
        ELSE IF message.message_id > d1.next_message_id
        THEN keep(Store(d1, message), chan, TRUE)
        ELSE keep(d1, chan, TRUE)

(***************************************************************************)
(* StreamHandler::handle_message as a function of the handler              *)
(*   h = [stream_data, chans, announce, announced, pc].                    *)
(***************************************************************************)

\* Sender::try_send on the channel of receivers: Ok unless the channel is
\* full or its receiving end has been dropped
AnnounceOk(h) ==
    ~h.announce_rx_dropped /\ Len(h.announce) < Capacity(ANNOUNCE_BUFFER_LENGTH)

\* the receiver put in front of the receivers already waiting
Announce_InFront(h, stream_id) ==
    LET c == Len(h.chans) + 1
    IN  [h EXCEPT !.chans = Append(@, [NewChannel(stream_id) EXCEPT !.log = <<AnnounceEvent>>]),
                  !.announce = <<c>> \o @,
                  !.announced = <<c>> \o @,
                  !.stream_data = MapInsert(@, stream_id, NewStreamData(c))]

\* handle_message, lines 98-110, Entry::Vacant: the new channel's receiver is
\* sent out, then the record is inserted
Announce(h, stream_id) ==
    LET c == Len(h.chans) + 1
    IN  [h EXCEPT !.chans = Append(@, [NewChannel(stream_id) EXCEPT !.log = <<AnnounceEvent>>]),
                  !.announce = Append(@, c),
                  !.announced = Append(@, c),
                  !.stream_data = MapInsert(@, stream_id, NewStreamData(c))]

\* the handling of a frame with clear() in place of remove(&stream_id)
HandleEntry_ClearAll(h, message) ==
    LET s == message.stream_id
        data == h.stream_data[s]
        r == HandleData(data, h.chans[data.sender], message)
    IN  [h EXCEPT !.chans[data.sender] = r.chan,
                  !.stream_data = IF r.remove THEN EmptyMap
                                  ELSE [@ EXCEPT ![s] = r.data],
                  !.pc = IF r.ok THEN @ ELSE "panicked"]

\* the handling of a frame without the removal of the record at its end
HandleEntry_KeepRecord(h, message) ==
    LET s == message.stream_id
        data == h.stream_data[s]
        r == HandleData(data, h.chans[data.sender], message)
    IN  [h EXCEPT !.chans[data.sender] = r.chan,
                  !.stream_data[s] = r.data,
                  !.pc = IF r.ok THEN @ ELSE "panicked"]

\* handle_message, lines 112-166, on the record of the frame's stream
HandleEntry(h, message) ==
    LET s == message.stream_id
        data == h.stream_data[s]
        r == HandleData(data, h.chans[data.sender], message)
    IN  [h EXCEPT !.chans[data.sender] = r.chan,
                  !.stream_data = IF r.remove THEN MapRemove(@, s)
                                  ELSE [@ EXCEPT ![s] = r.data],
                  !.pc = IF r.ok THEN @ ELSE "panicked"]

\* handle_message going on with the new record when the receiver could not
\* be sent (the result of try_send dropped instead of expect-ed)
handle_message_IgnoreAnnounceError(h, message) ==
    IF message.stream_id \in DOMAIN h.stream_data
    THEN HandleEntry(h, message)
    ELSE IF AnnounceOk(h)
    THEN HandleEntry(Announce(h, message.stream_id), message)
    ELSE LET c == Len(h.chans) + 1
             h1 == [h EXCEPT !.chans = Append(@, NewChannel(message.stream_id)),
                             !.stream_data = MapInsert(@, message.stream_id, NewStreamData(c))]
         IN  HandleEntry(h1, message)

\* handle_message making a new record for every frame (insert in place of
\* entry)
handle_message_AlwaysVacant(h, message) ==
    IF AnnounceOk(h)
    THEN HandleEntry(Announce(h, message.stream_id), message)
    ELSE [h EXCEPT !.pc = "panicked"]

\* handle_message dropping the frames of a stream id that had a channel
\* before
handle_message_DropRetired(h, message) ==
    IF message.stream_id \in DOMAIN h.stream_data
    THEN HandleEntry(h, message)
    ELSE IF \E c \in 1..Len(h.chans) : h.chans[c].stream_id = message.stream_id
    THEN h
    ELSE IF AnnounceOk(h)
    THEN HandleEntry(Announce(h, message.stream_id), message)
    ELSE [h EXCEPT !.pc = "panicked"]

handle_message(h, message) ==
    IF message.stream_id \in DOMAIN h.stream_data
    THEN HandleEntry(h, message)
    ELSE IF AnnounceOk(h)
    THEN HandleEntry(Announce(h, message.stream_id), message)
    ELSE [h EXCEPT !.pc = "panicked"]

\* StreamHandler::new
NewHandler ==
    [stream_data |-> EmptyMap, chans |-> <<>>, announce |-> <<>>,
     announce_rx_dropped |-> FALSE, announced |-> <<>>, pc |-> "listen"]

Handler ==
    [stream_data |-> stream_data, chans |-> chans, announce |-> announce,
     announce_rx_dropped |-> announce_rx_dropped, announced |-> announced,
     pc |-> pc]

Init ==
    /\ stream_data = NewHandler.stream_data
    /\ chans = NewHandler.chans
    /\ announce = NewHandler.announce
    /\ announced = NewHandler.announced
    /\ pc = NewHandler.pc
    /\ held = {}
    /\ input_closed = FALSE
    /\ announce_rx_dropped = NewHandler.announce_rx_dropped
    /\ fed = <<>>

\* StreamHandler::listen, one iteration: a frame is taken from the input
\* channel and handled
Listen(message) ==
    /\ pc = "listen"
    /\ LET h == handle_message(Handler, message)
       IN  /\ stream_data' = h.stream_data
           /\ chans' = h.chans
           /\ announce' = h.announce
           /\ announced' = h.announced
           /\ pc' = h.pc
    /\ fed' = Append(fed, message)
    /\ UNCHANGED <<held, input_closed, announce_rx_dropped>>

\* the transport puts a frame on the input channel and the handler takes it
HandleMessage(header) ==
    /\ Len(fed) < MaxFrames
    /\ ~input_closed
    /\ Listen(StreamMessage(header, Len(fed) + 1))

\* the transport puts a frame on the input channel after the handler has
\* panicked: nothing takes it
Unhandled(header) ==
    /\ Len(fed) < MaxFrames
    /\ ~input_closed
    /\ pc = "panicked"
    /\ fed' = Append(fed, StreamMessage(header, Len(fed) + 1))
    /\ UNCHANGED <<stream_data, chans, announce, held, pc, input_closed, announced, announce_rx_dropped>>

\* the subscriber takes the next receiver from the channel of receivers
Subscribe ==
    /\ announce # <<>>
    /\ held' = held \cup {Head(announce)}
    /\ announce' = Tail(announce)
    /\ UNCHANGED <<stream_data, chans, pc, input_closed, announced, fed, announce_rx_dropped>>

\* the consumer of a per-stream receiver takes the next message from it
Consume(c) ==
    /\ c \in held
    /\ chans[c].queue # <<>>
    /\ chans' = [chans EXCEPT ![c].queue = Tail(@)]
    /\ UNCHANGED <<stream_data, announce, held, pc, input_closed, announced, fed, announce_rx_dropped>>

Next ==
    \/ \E header \in Headers : HandleMessage(header)
    \/ \E header \in Headers : Unhandled(header)
    \/ Subscribe
    \/ \E c \in 1..Len(chans) : Consume(c)

Spec == Init /\ [][Next]_vars

\* the handler fed frame by frame while no receiver is read
NextFeed ==
    \/ \E header \in Headers : HandleMessage(header)
    \/ \E header \in Headers : Unhandled(header)

SpecFeed == Init /\ [][NextFeed]_vars

(***************************************************************************)
(* The end of the input.                                                   *)
(***************************************************************************)

\* the transport drops the sending end of the input channel
CloseInput ==
    /\ ~input_closed
    /\ input_closed' = TRUE
    /\ UNCHANGED <<stream_data, chans, announce, held, pc, announced, fed, announce_rx_dropped>>

\* StreamHandler::listen, one iteration on the closed, empty input channel:
\* receiver.next() yields None, the if let does not match, the loop goes on
ListenClosed ==
    /\ pc = "listen"
    /\ input_closed
    /\ pc' = "listen"
    /\ UNCHANGED <<stream_data, chans, announce, held, input_closed, announced, fed, announce_rx_dropped>>

NextRun ==
    \/ Next
    \/ CloseInput
    \/ ListenClosed

\* the task is scheduled as long as it can take a step, and so are the
\* transport, the subscriber and the consumers
SpecRun == Init /\ [][NextRun]_vars /\ WF_vars(NextRun)

(***************************************************************************)
(* Cancellation, and consumers that go away.                               *)
(***************************************************************************)

\* a drop that leaves the senders alive
DropHandler_KeepOpen(h) ==
    [h EXCEPT !.stream_data = EmptyMap, !.pc = "dropped"]

\* drop of the StreamHandler: stream_data is dropped, and with each
\* StreamData its sender, which closes the channel; what is in the queue
\* stays for the receiver
DropHandler(h) ==
    [h EXCEPT !.stream_data = EmptyMap,
              !.chans = [c \in DOMAIN h.chans |-> [h.chans[c] EXCEPT !.closed = TRUE]],
              !.pc = "dropped"]

\* the caller cancels listen at its await (between two frames) and drops
\* the handler
Cancel ==
    /\ pc = "listen"
    /\ LET h == DropHandler(Handler)
       IN  /\ stream_data' = h.stream_data
           /\ chans' = h.chans
           /\ pc' = h.pc
    /\ UNCHANGED <<announce, held, input_closed, announced, fed, announce_rx_dropped>>

\* the consumer of a per-stream receiver drops it
DropReceiver(c) ==
    /\ c \in held
    /\ ~chans[c].rx_dropped
    /\ chans' = [chans EXCEPT ![c].rx_dropped = TRUE, ![c].queue = <<>>]
    /\ UNCHANGED <<stream_data, announce, held, pc, input_closed, announced, fed, announce_rx_dropped>>

\* the handler with consumers that may drop their receivers
NextReceiverDrop ==
    \/ Next
    \/ \E c \in 1..Len(chans) : DropReceiver(c)

SpecReceiverDrop == Init /\ [][NextReceiverDrop]_vars

\* the handler with its owner that may cancel listen
NextDrop ==
    \/ Next
    \/ Cancel

SpecDrop == Init /\ [][NextDrop]_vars

\* the subscriber drops the receiving end of the channel of receivers, and
\* with it the receivers that wait in it
DropAnnounceReceiver ==
    /\ ~announce_rx_dropped
    /\ announce_rx_dropped' = TRUE
    /\ announce' = <<>>
    /\ chans' = [c \in DOMAIN chans |->
                    IF \E k \in 1..Len(announce) : announce[k] = c
                    THEN [chans[c] EXCEPT !.rx_dropped = TRUE, !.queue = <<>>]
                    ELSE chans[c]]
    /\ UNCHANGED <<stream_data, held, pc, input_closed, announced, fed>>

\* the handler with a subscriber and consumers that may go away, as long as
\* it runs and no per-stream receiver has been dropped
NextConsumers ==
    /\ pc = "listen"
    /\ \A c \in 1..Len(chans) : ~chans[c].rx_dropped
    /\ \/ \E header \in Headers : HandleMessage(header)
       \/ Subscribe
       \/ \E c \in 1..Len(chans) : Consume(c)
       \/ \E c \in 1..Len(chans) : DropReceiver(c)
       \/ DropAnnounceReceiver

SpecConsumers == Init /\ [][NextConsumers]_vars

(***************************************************************************)
(* Histories read off the state.                                           *)
(***************************************************************************)
Channels == 1..Len(chans)

IsSend(e) == e.ev = "send"
IsClose(e) == e.ev = "close"
IsAnnounce(e) == e.ev = "announce"

\* the messages pushed on channel c so far, in order
Sends(c) == SelectSeq(chans[c].log, IsSend)

\* the message ids pushed on channel c so far, in order
SentIds(c) == [i \in 1..Len(Sends(c)) |-> Sends(c)[i].message_id]

\* the sequence 0, 1, ..., n - 1
Iota(n) == [i \in 1..n |-> i - 1]

\* position of the first element of seq that satisfies x, 0 when there is none
FirstIndex(seq, x) ==
    IF \E i \in 1..Len(seq) : seq[i] = x
    THEN CHOOSE i \in 1..Len(seq) : seq[i] = x /\ \A j \in 1..(i - 1) : seq[j] # x
    ELSE 0

\* the stream of each frame taken from the input, and of each receiver sent
FedStreams == [i \in 1..Len(fed) |-> fed[i].stream_id]
AnnouncedStreams == [i \in 1..Len(announced) |-> chans[announced[i]].stream_id]

(***************************************************************************)
(* C1: on every per-stream channel the message ids pushed so far are       *)
(* 0, 1, ..., k-1 in this order: ascending from 0, no gap, no duplicate.   *)
(***************************************************************************)
C1_InOrderFromZero ==
    \A c \in Channels : SentIds(c) = Iota(Len(Sends(c)))

\* three messages were pushed in order although id 1 arrived before id 0
C1_Witness ==
    \E c \in Channels :
        /\ Len(Sends(c)) = 3
        /\ Sends(c)[2].message < Sends(c)[1].message

(***************************************************************************)
(* C3: on every per-stream channel, the receiver was sent on the channel   *)
(* of receivers before the first message was pushed: every push in the     *)
(* channel's history comes after its announcement.                         *)
(***************************************************************************)
C3_AnnouncedBeforeFirstSend ==
    \A c \in Channels :
        \A i \in 1..Len(chans[c].log) :
            IsSend(chans[c].log[i]) =>
                /\ \E j \in 1..(i - 1) : IsAnnounce(chans[c].log[j])
                /\ \E k \in 1..Len(announced) : announced[k] = c

\* a message has been pushed on a channel whose receiver still waits in the
\* channel of receivers
C3_Witness ==
    \E c \in Channels :
        /\ Sends(c) # <<>>
        /\ \E k \in 1..Len(announce) : announce[k] = c

(***************************************************************************)
(* C4: receivers are sent in the order in which their streams were first   *)
(* seen on the input: when the first frame of stream a precedes the first  *)
(* frame of stream b and b has a receiver, a has one that precedes it.     *)
(***************************************************************************)
C4_AnnounceOrderIsFirstSeenOrder ==
    \A a, b \in Streams :
        ( /\ FirstIndex(FedStreams, a) # 0
          /\ FirstIndex(FedStreams, a) < FirstIndex(FedStreams, b)
          /\ FirstIndex(AnnouncedStreams, b) # 0 )
        => /\ FirstIndex(AnnouncedStreams, a) # 0
           /\ FirstIndex(AnnouncedStreams, a) < FirstIndex(AnnouncedStreams, b)

\* stream 2 was seen first, then stream 1, and both have a receiver
C4_Witness ==
    /\ FirstIndex(FedStreams, 2) = 1
    /\ FirstIndex(FedStreams, 1) > 1
    /\ FirstIndex(AnnouncedStreams, 1) # 0
    /\ FirstIndex(AnnouncedStreams, 2) # 0

\* the frames of stream s taken from the input, in order
StreamFrames(s) == SelectSeq(fed, LAMBDA m : m.stream_id = s)

\* the channels created for stream s
ChannelsOf(s) == {c \in Channels : chans[c].stream_id = s}

\* the input of stream s so far is the frames with ids 0..f without the fin
\* flag and one frame with id f and the fin flag, each once, in some order
CompleteOnce(s, f) ==
    LET frames == StreamFrames(s)
    IN  /\ Len(frames) = f + 2
        /\ \E i \in 1..Len(frames) : frames[i].fin /\ frames[i].message_id = f
        /\ \A k \in 0..f :
               \E i \in 1..Len(frames) : ~frames[i].fin /\ frames[i].message_id = k

(***************************************************************************)
(* C2: once the input of a stream has been the frames 0..f and a fin with  *)
(* id f, each once, in any order and interleaved with the other stream,    *)
(* its channel has got exactly the ids 0, 1, ..., f in order and has been  *)
(* closed, and the record is gone.                                         *)
(***************************************************************************)
C2_CompleteStreamDelivered ==
    \A s \in Streams : \A f \in MessageIds :
        CompleteOnce(s, f) =>
            /\ s \notin DOMAIN stream_data
            /\ \A c \in ChannelsOf(s) :
                   /\ SentIds(c) = Iota(f + 1)
                   /\ chans[c].closed
            /\ Cardinality(ChannelsOf(s)) = 1

(***************************************************************************)
(* C5: no message with an id above the fin id of its stream has been       *)
(* pushed: on the channel of a record whose fin_message_id is set, and on  *)
(* a closed channel (its fin id being the one the record had when it was   *)
(* closed), every id pushed is at most the fin id.                         *)
(***************************************************************************)
C5_NoSendBeyondFin ==
    /\ \A s \in DOMAIN stream_data :
           stream_data[s].fin_message_id # None =>
               \A i \in 1..Len(Sends(stream_data[s].sender)) :
                   Sends(stream_data[s].sender)[i].message_id
                       <= stream_data[s].fin_message_id
    /\ \A c \in Channels :
           \A j \in 1..Len(chans[c].log) :
               IsClose(chans[c].log[j]) =>
                   \A i \in 1..Len(Sends(c)) :
                       Sends(c)[i].message_id <= chans[c].log[j].fin_message_id

(***************************************************************************)
(* C6: once the fin_message_id of a record is set, no frame changes it as  *)
(* long as the record lives.                                               *)
(***************************************************************************)
C6_FinIdImmutable ==
    [][\A s \in DOMAIN stream_data :
          ( /\ stream_data[s].fin_message_id # None
            /\ s \in DOMAIN stream_data'
            /\ stream_data'[s].sender = stream_data[s].sender )
          => stream_data'[s].fin_message_id = stream_data[s].fin_message_id]_vars

(***************************************************************************)
(* C7: after every frame, the map holds no record whose fin_message_id is  *)
(* set and whose next_message_id is fin_message_id + 1: such a record has  *)
(* been closed and removed within the handling of the frame.               *)
(***************************************************************************)
C7_Retired ==
    \A s \in DOMAIN stream_data :
        ~ ( /\ stream_data[s].fin_message_id # None
            /\ stream_data[s].next_message_id = stream_data[s].fin_message_id + 1 )

(***************************************************************************)
(* C8: a channel is closed (and its record removed) only when the record's *)
(* fin_message_id is set and next_message_id = fin_message_id + 1, that is *)
(* after every id 0..fin_message_id has been pushed on it.                 *)
(***************************************************************************)
C8_NoPrematureClose ==
    \A c \in Channels :
        \A j \in 1..Len(chans[c].log) :
            IsClose(chans[c].log[j]) =>
                /\ chans[c].log[j].fin_message_id # None
                /\ chans[c].log[j].next_message_id = chans[c].log[j].fin_message_id + 1
                /\ SentIds(c) = Iota(chans[c].log[j].fin_message_id + 1)

\* message id id has been pushed on a channel of stream s
Delivered(s, id) ==
    \E c \in ChannelsOf(s) : \E i \in 1..Len(Sends(c)) : Sends(c)[i].message_id = id

\* this step puts a frame on the input channel
FrameStep == Len(fed') = Len(fed) + 1
LastFrame == fed'[Len(fed')]

(***************************************************************************)
(* C9, as claimed: a frame whose message id has already been pushed on a   *)
(* channel of its stream, whether the record is still there or has been    *)
(* retired, changes nothing: not the map, not the channel of receivers,    *)
(* not any per-stream channel.                                             *)
(***************************************************************************)
C9_RepeatChangesNothing ==
    [][(FrameStep /\ Delivered(LastFrame.stream_id, LastFrame.message_id))
          => UNCHANGED <<stream_data, chans, announce, announced, pc>>]_vars

(***************************************************************************)
(* C9, amended: a frame whose message id is below next_message_id of the   *)
(* record its stream has in the map pushes nothing and announces nothing:  *)
(* the channels, the channel of receivers and the record are unchanged,    *)
(* but for fin_message_id, which a frame with the fin flag sets to its id. *)
(***************************************************************************)
C9_RepeatOnLiveRecord ==
    [][( /\ FrameStep
         /\ pc = "listen"
         /\ LastFrame.stream_id \in DOMAIN stream_data
         /\ LastFrame.message_id < stream_data[LastFrame.stream_id].next_message_id )
          => /\ UNCHANGED <<chans, announce, announced, pc>>
             /\ stream_data' =
                    [stream_data EXCEPT ![LastFrame.stream_id].fin_message_id =
                        IF LastFrame.fin THEN LastFrame.message_id ELSE @]]_vars

\* the frame (1, 0) was pushed, then a second frame (1, 0) without the fin
\* flag came while the record was in the map, and the first is the one pushed
C9_Witness ==
    /\ Len(fed) >= 2
    /\ pc = "listen"
    /\ LET m == fed[Len(fed)]
       IN  /\ ~m.fin
           /\ m.stream_id \in DOMAIN stream_data
           /\ m.message_id < stream_data[m.stream_id].next_message_id
           /\ \E i \in 1..(Len(fed) - 1) :
                  /\ fed[i].stream_id = m.stream_id
                  /\ fed[i].message_id = m.message_id
                  /\ Sends(stream_data[m.stream_id].sender)[m.message_id + 1].message
                         = fed[i].message

(***************************************************************************)
(* What a handler makes of a sequence of frames, and what it puts out for  *)
(* one stream.                                                             *)
(***************************************************************************)
RECURSIVE Replay(_, _)
Replay(frames, h) ==
    IF frames = <<>> \/ h.pc = "panicked" THEN h
    ELSE Replay(Tail(frames), handle_message(h, Head(frames)))

\* per channel of stream s, in creation order: the messages pushed and
\* whether the channel is closed
Output(h, s) ==
    LET cs == SelectSeq(h.chans, LAMBDA ch : ch.stream_id = s)
    IN  [i \in 1..Len(cs) |->
            [sends |-> SelectSeq(cs[i].log, IsSend), closed |-> cs[i].closed]]

(***************************************************************************)
(* C10: what comes out for a stream depends on the frames of that stream   *)
(* alone: whatever frames of the other stream are interleaved with them,   *)
(* the messages pushed for the stream and the closing of its channel are   *)
(* those the handler produces when fed the frames of the stream only.      *)
(***************************************************************************)
C10_Independence ==
    \A s \in Streams :
        Output(Handler, s) = Output(Replay(StreamFrames(s), NewHandler), s)

(***************************************************************************)
(* C11: a push on a full per-stream channel does not abort the handler: it *)
(* waits for capacity, the message is not lost. So no frame whose stream   *)
(* has its record, or gets it in this step, ends the task.                 *)
(***************************************************************************)
C11_OutboundBackPressure ==
    [][( /\ FrameStep
         /\ pc = "listen"
         /\ \/ LastFrame.stream_id \in DOMAIN stream_data
            \/ AnnounceOk(Handler) )
          => pc' = "listen"]_vars

(***************************************************************************)
(* C12: handling a frame never aborts the handler, whatever the frames and *)
(* whatever the subscriber and the consumers do: the task is never ended   *)
(* by a panic, every later frame is still handled.                         *)
(***************************************************************************)
C12_NeverAborts == pc # "panicked"

(***************************************************************************)
(* C13: listen returns once the input channel is closed and its frames     *)
(* have been handled.                                                      *)
(***************************************************************************)
C13_ListenReturns == input_closed ~> (pc = "returned")

\* the number of receivers sent for stream s
ReceiversOf(s) ==
    Cardinality({i \in 1..Len(announced) : chans[announced[i]].stream_id = s})

(***************************************************************************)
(* C14, as claimed: while the handler runs, one receiver has been sent for *)
(* every stream id seen on the input and none for any other: no later      *)
(* frame with the same stream id sends a second one.                       *)
(***************************************************************************)
C14_OneReceiverPerStream ==
    pc = "listen" =>
        \A s \in Streams :
            ReceiversOf(s) = IF FirstIndex(FedStreams, s) # 0 THEN 1 ELSE 0

(***************************************************************************)
(* C14, amended: one receiver is sent per record created. A receiver is    *)
(* sent only by a frame whose stream id has no record in the map, and it   *)
(* is the receiver of the channel of the record made for that frame; a     *)
(* frame whose stream id has a record sends none. Every channel has had    *)
(* its receiver sent once, and a stream id has a channel that is not       *)
(* closed exactly when it has a record, which holds its sender.            *)
(***************************************************************************)
C14_OneReceiverPerRecord ==
    /\ [](/\ \A c \in Channels :
                Cardinality({i \in 1..Len(announced) : announced[i] = c}) = 1
          /\ \A s \in Streams :
                {c \in ChannelsOf(s) : ~chans[c].closed}
                    = IF s \in DOMAIN stream_data THEN {stream_data[s].sender} ELSE {})
    /\ [][announced' # announced =>
             /\ FrameStep
             /\ LastFrame.stream_id \notin DOMAIN stream_data
             /\ Len(chans') = Len(chans) + 1
             /\ announced' = Append(announced, Len(chans'))
             /\ chans'[Len(chans')].stream_id = LastFrame.stream_id]_vars

\* stream 1 was retired, came back with a second receiver, and its next
\* frame sent none
C14_Witness ==
    /\ Len(fed) = 3
    /\ ReceiversOf(1) = 2
    /\ 1 \in DOMAIN stream_data
    /\ stream_data[1].next_message_id = 2

(***************************************************************************)
(* C15: frame processing closes no channel of a stream without a fin: a    *)
(* channel either belongs to a record of the map and is open, or it was    *)
(* closed for a record whose fin_message_id was set. While fin_message_id  *)
(* is unset the record stays and its channel is open, whatever was pushed. *)
(***************************************************************************)
C15_OpenWithoutFin ==
    \A c \in Channels :
        \/ /\ ~chans[c].closed
           /\ \E s \in DOMAIN stream_data : stream_data[s].sender = c
        \/ /\ chans[c].closed
           /\ \E j \in 1..Len(chans[c].log) :
                  /\ IsClose(chans[c].log[j])
                  /\ chans[c].log[j].fin_message_id # None

\* (1,0), (1,1), (1,2) were pushed, no fin came: the record is there and the
\* channel open
C15_Witness ==
    \E s \in DOMAIN stream_data :
        /\ stream_data[s].fin_message_id = None
        /\ stream_data[s].next_message_id = 3
        /\ ~chans[stream_data[s].sender].closed

(***************************************************************************)
(* C16: when listen is cancelled at its await and the handler dropped,     *)
(* every record is dropped and every channel that was open is closed; the  *)
(* messages already pushed stay in the channel for the consumer, which     *)
(* sees the end of the stream after them.                                  *)
(***************************************************************************)
C16_CancelClosesChannels ==
    [][(pc = "listen" /\ pc' = "dropped") =>
          /\ DOMAIN stream_data' = {}
          /\ Len(chans') = Len(chans)
          /\ \A c \in Channels :
                 /\ chans'[c].closed
                 /\ chans'[c].queue = chans[c].queue
                 /\ chans'[c].log = chans[c].log]_vars

\* the handler was dropped while a channel with a message in it was open
C16_Witness ==
    /\ pc = "dropped"
    /\ \E c \in Channels :
           /\ chans[c].queue # <<>>
           /\ chans[c].closed
           /\ \A j \in 1..Len(chans[c].log) : ~IsClose(chans[c].log[j])

\* the step handles a fin frame for a stream that has a record
FinOnRecord ==
    /\ FrameStep
    /\ pc = "listen"
    /\ LastFrame.fin
    /\ LastFrame.stream_id \in DOMAIN stream_data

(***************************************************************************)
(* C17, as claimed: in every state, a record whose fin_message_id is set   *)
(* has fin_message_id >= max_message_id.                                   *)
(***************************************************************************)
C17_FinAtLeastMax ==
    \A s \in DOMAIN stream_data :
        stream_data[s].fin_message_id # None
            => stream_data[s].fin_message_id >= stream_data[s].max_message_id

(***************************************************************************)
(* C17, amended: in every state, a record whose fin_message_id is set has  *)
(* fin_message_id <= max_message_id; the two are equal right after a fin   *)
(* frame whose message_id is not below max_message_id has been handled and *)
(* the record is still in the map.                                         *)
(***************************************************************************)
C17_FinAtMostMax ==
    /\ [](\A s \in DOMAIN stream_data :
              stream_data[s].fin_message_id # None
                  => stream_data[s].fin_message_id <= stream_data[s].max_message_id)
    /\ [][( /\ FrameStep
            /\ pc = "listen"
            /\ pc' = "listen"
            /\ LastFrame.fin
            /\ LastFrame.stream_id \in DOMAIN stream_data'
            /\ LastFrame.stream_id \in DOMAIN stream_data
                  => stream_data[LastFrame.stream_id].max_message_id
                         <= LastFrame.message_id )
             => LET data == stream_data'[LastFrame.stream_id]
                IN  /\ data.fin_message_id = LastFrame.message_id
                    /\ data.max_message_id = LastFrame.message_id]_vars

\* a fin with an id above 0 was taken and a later frame with a greater id
\* raised max_message_id above it
C17_Witness ==
    \E s \in DOMAIN stream_data :
        /\ stream_data[s].fin_message_id > 0
        /\ stream_data[s].max_message_id > stream_data[s].fin_message_id
        /\ \A i \in 1..Len(fed) : fed[i].fin => fed[i].message_id = stream_data[s].fin_message_id

(***************************************************************************)
(* C18: a fin frame for a record whose fin_message_id is already set is    *)
(* discarded: the record (fin_message_id, next_message_id, buffer) and     *)
(* every channel are left as they were.                                    *)
(***************************************************************************)
C18_SecondFinDiscarded ==
    [][(FinOnRecord /\ stream_data[LastFrame.stream_id].fin_message_id # None)
          => /\ LET s == LastFrame.stream_id
                IN  /\ s \in DOMAIN stream_data'
                    /\ stream_data'[s].fin_message_id = stream_data[s].fin_message_id
                    /\ stream_data'[s].next_message_id = stream_data[s].next_message_id
                    /\ stream_data'[s].message_buffer = stream_data[s].message_buffer
             /\ chans' = chans]_vars

(***************************************************************************)
(* C19: a fin frame whose message_id is below max_message_id of its record *)
(* is discarded: fin_message_id stays unset, the record stays in the map   *)
(* with its counters and buffer, and no channel changes.                   *)
(***************************************************************************)
C19_FinBelowMaxDiscarded ==
    [][( /\ FinOnRecord
         /\ stream_data[LastFrame.stream_id].fin_message_id = None
         /\ LastFrame.message_id < stream_data[LastFrame.stream_id].max_message_id )
          => /\ stream_data' = stream_data
             /\ chans' = chans]_vars

(***************************************************************************)
(* C20: in every state, the buffer of a record whose fin_message_id is set *)
(* holds no message_id greater than fin_message_id.                        *)
(***************************************************************************)
C20_BufferWithinFin ==
    \A s \in DOMAIN stream_data :
        stream_data[s].fin_message_id # None
            => \A id \in DOMAIN stream_data[s].message_buffer :
                   id <= stream_data[s].fin_message_id

(***************************************************************************)
(* C21: in every state, the buffer of a record holds no message_id below   *)
(* its next_message_id.                                                    *)
(***************************************************************************)
C21_BufferNotBelowNext ==
    \A s \in DOMAIN stream_data :
        \A id \in DOMAIN stream_data[s].message_buffer :
            id >= stream_data[s].next_message_id

\* (s,2) was stored, then (s,0) was pushed: id 2 waits in the buffer above
\* next_message_id = 1
C21_Witness ==
    \E s \in DOMAIN stream_data :
        /\ stream_data[s].next_message_id = 1
        /\ DOMAIN stream_data[s].message_buffer = {2}
        /\ stream_data[s].message_buffer[2].message
               < Sends(stream_data[s].sender)[1].message

\* the record of stream s is the same record before and after the step
SameRecord(s) ==
    /\ s \in DOMAIN stream_data
    /\ s \in DOMAIN stream_data'
    /\ stream_data'[s].sender = stream_data[s].sender

\* the entries added by the step to the history of channel c
NewEvents(c) ==
    SubSeq(chans'[c].log, Len(chans[c].log) + 1, Len(chans'[c].log))

(***************************************************************************)
(* C22: the buffer of a record never holds the key next_message_id; and a  *)
(* step that pushes the frame it handles pushes with it, in order, the     *)
(* buffered messages with consecutive ids and removes them, and nothing    *)
(* else, from the buffer.                                                  *)
(***************************************************************************)
C22_Drained ==
    /\ [](\A s \in DOMAIN stream_data :
              stream_data[s].next_message_id \notin DOMAIN stream_data[s].message_buffer)
    /\ [][\A s \in Streams :
            ( /\ FrameStep
              /\ pc' = "listen"
              /\ LastFrame.stream_id = s
              /\ SameRecord(s)
              /\ stream_data'[s].next_message_id > stream_data[s].next_message_id )
            => LET old == stream_data[s]
                   new == stream_data'[s]
                   pushed == SelectSeq(NewEvents(old.sender), IsSend)
               IN  /\ LastFrame.message_id = old.next_message_id
                   /\ Len(pushed) = new.next_message_id - old.next_message_id
                   /\ pushed[1].message = LastFrame.message
                   /\ \A i \in 2..Len(pushed) :
                          /\ old.next_message_id + i - 1 \in DOMAIN old.message_buffer
                          /\ pushed[i].message
                                 = old.message_buffer[old.next_message_id + i - 1].message
                   /\ DOMAIN new.message_buffer
                          = {id \in DOMAIN old.message_buffer : id > new.next_message_id}]_vars

\* the step that handled (s,0) pushed the buffered (s,1) with it and left
\* the record in the map
C22_Witness ==
    \E s \in DOMAIN stream_data :
        LET c == stream_data[s].sender
        IN  /\ Len(fed) = 2
            /\ fed[2].stream_id = s
            /\ fed[2].message_id = 0
            /\ Len(Sends(c)) = 2
            /\ Sends(c)[2].message = 1

(***************************************************************************)
(* C23: next_message_id of a record never decreases, and it is the number  *)
(* of messages pushed on the record's channel: each push adds one.         *)
(***************************************************************************)
C23_NextCountsPushes ==
    /\ [](\A s \in DOMAIN stream_data :
              stream_data[s].next_message_id = Len(Sends(stream_data[s].sender)))
    /\ [][\A s \in Streams :
            SameRecord(s) =>
                stream_data'[s].next_message_id >= stream_data[s].next_message_id]_vars

\* two messages were pushed and one of them was taken by the consumer
C23_Witness ==
    \E s \in DOMAIN stream_data :
        /\ stream_data[s].next_message_id = 2
        /\ Len(chans[stream_data[s].sender].queue) = 1

(***************************************************************************)
(* C24: a frame without the fin flag whose message_id is above the         *)
(* fin_message_id of its record is dropped: the handler goes on, no        *)
(* channel changes, no receiver is sent, and of the record only            *)
(* max_message_id may change (to the frame's id when it is greater).       *)
(***************************************************************************)
C24_BeyondFinDropped ==
    [][( /\ FrameStep
         /\ pc = "listen"
         /\ ~LastFrame.fin
         /\ LastFrame.stream_id \in DOMAIN stream_data
         /\ stream_data[LastFrame.stream_id].fin_message_id # None
         /\ LastFrame.message_id > stream_data[LastFrame.stream_id].fin_message_id )
          => /\ pc' = "listen"
             /\ chans' = chans
             /\ announce' = announce
             /\ announced' = announced
             /\ stream_data' =
                    [stream_data EXCEPT ![LastFrame.stream_id].max_message_id =
                        IF @ < LastFrame.message_id THEN LastFrame.message_id ELSE @]]_vars

\* a fin with id 1 was stored, then a frame with id 2 came and was not
C24_Witness ==
    /\ Len(fed) = 2
    /\ fed[1].fin /\ fed[1].message_id = 1
    /\ ~fed[2].fin /\ fed[2].message_id = 2
    /\ fed[2].stream_id = fed[1].stream_id
    /\ DOMAIN stream_data[fed[1].stream_id].message_buffer = {1}
    /\ stream_data[fed[1].stream_id].max_message_id = 2

(***************************************************************************)
(* C25: a frame whose message_id is a key of its record's buffer is        *)
(* discarded: the buffer and every channel are as before. A buffered       *)
(* message is never replaced, and in a step that leaves the handler       *)
(* running it leaves the buffer only by being pushed, so the message       *)
(* pushed for an id is the one stored first.                               *)
(***************************************************************************)
C25_FirstBufferedKept ==
    /\ [][( /\ FrameStep
            /\ pc = "listen"
            /\ LastFrame.stream_id \in DOMAIN stream_data
            /\ LastFrame.message_id
                   \in DOMAIN stream_data[LastFrame.stream_id].message_buffer )
             => /\ pc' = "listen"
                /\ SameRecord(LastFrame.stream_id)
                /\ stream_data'[LastFrame.stream_id].message_buffer
                       = stream_data[LastFrame.stream_id].message_buffer
                /\ chans' = chans]_vars
    /\ [][\A s \in DOMAIN stream_data :
            \A id \in DOMAIN stream_data[s].message_buffer :
                pc' = "listen" =>
                IF SameRecord(s) /\ id \in DOMAIN stream_data'[s].message_buffer
                THEN stream_data'[s].message_buffer[id] = stream_data[s].message_buffer[id]
                ELSE \E i \in 1..Len(NewEvents(stream_data[s].sender)) :
                        /\ IsSend(NewEvents(stream_data[s].sender)[i])
                        /\ NewEvents(stream_data[s].sender)[i].message
                               = stream_data[s].message_buffer[id].message]_vars

\* (s,1) came twice, then (s,0): the message pushed for id 1 is the first
C25_Witness ==
    \E c \in Channels :
        /\ Len(fed) = 3
        /\ \A i \in 1..2 : fed[i].stream_id = chans[c].stream_id /\ fed[i].message_id = 1
        /\ Len(Sends(c)) = 2
        /\ Sends(c)[2].message = 1

\* the step handles a frame of a stream that has no record, and the
\* receiver of its new channel can be sent
NewStreamStep ==
    /\ FrameStep
    /\ pc = "listen"
    /\ LastFrame.stream_id \notin DOMAIN stream_data
    /\ AnnounceOk(Handler)

\* the step handles the first frame of its stream, a fin with id 0
FinZeroFirst ==
    /\ NewStreamStep
    /\ ChannelsOf(LastFrame.stream_id) = {}
    /\ LastFrame.fin
    /\ LastFrame.message_id = 0

\* the step made one channel, the last of chans', and sent its receiver
ChannelMade ==
    /\ Len(chans') = Len(chans) + 1
    /\ chans'[Len(chans')].stream_id = LastFrame.stream_id
    /\ announced' = Append(announced, Len(chans'))
    /\ announce' = Append(announce, Len(chans'))
    /\ \A c \in Channels : chans'[c] = chans[c]

(***************************************************************************)
(* C26, as claimed: a stream whose first frame is a fin with id 0 gets a   *)
(* channel whose receiver is sent, on which nothing is pushed, and which   *)
(* is closed.                                                              *)
(***************************************************************************)
C26_ClosedEmpty ==
    [][FinZeroFirst =>
          /\ ChannelMade
          /\ chans'[Len(chans')].closed
          /\ chans'[Len(chans')].queue = <<>>
          /\ SelectSeq(chans'[Len(chans')].log, IsSend) = <<>>]_vars

(***************************************************************************)
(* C26, amended: a stream whose first frame is a fin with id 0 gets a      *)
(* channel whose receiver is sent, on which the message of that frame is   *)
(* pushed, and which is closed in the same step; the record is removed.    *)
(***************************************************************************)
C26_ClosedAfterFinMessage ==
    [][FinZeroFirst =>
          /\ ChannelMade
          /\ pc' = "listen"
          /\ chans'[Len(chans')].closed
          /\ chans'[Len(chans')].queue = <<LastFrame.message>>
          /\ chans'[Len(chans')].log =
                 <<AnnounceEvent, SendEvent(LastFrame),
                   [ev |-> "close", next_message_id |-> 1, fin_message_id |-> 0]>>
          /\ stream_data' = stream_data]_vars

\* the only frame so far was a fin with id 0: its channel is closed and
\* holds its message
C26_Witness ==
    /\ Len(fed) = 1
    /\ fed[1].fin
    /\ fed[1].message_id = 0
    /\ chans[1].closed
    /\ chans[1].queue = <<1>>
    /\ stream_data = EmptyMap

(***************************************************************************)
(* C27, as claimed: when fin(s,0) is the first frame of s, the record of s *)
(* stays in the map with fin_message_id 0 and its channel open; and when   *)
(* (s,0,p) is handled on a record with fin_message_id 0 and nothing        *)
(* pushed, p is pushed on that channel, the channel is closed and the      *)
(* record removed.                                                         *)
(***************************************************************************)
C27_FinFirstWaitsForPayload ==
    /\ [][FinZeroFirst =>
             /\ LastFrame.stream_id \in DOMAIN stream_data'
             /\ stream_data'[LastFrame.stream_id].fin_message_id = 0
             /\ ~chans'[stream_data'[LastFrame.stream_id].sender].closed]_vars
    /\ [][( /\ FrameStep
            /\ pc = "listen"
            /\ ~LastFrame.fin
            /\ LastFrame.message_id = 0
            /\ LastFrame.stream_id \in DOMAIN stream_data
            /\ stream_data[LastFrame.stream_id].fin_message_id = 0
            /\ stream_data[LastFrame.stream_id].next_message_id = 0
            /\ pc' = "listen" )
             => LET c == stream_data[LastFrame.stream_id].sender
                IN  /\ Len(chans') = Len(chans)
                    /\ SelectSeq(NewEvents(c), IsSend)[1].message = LastFrame.message
                    /\ chans'[c].closed
                    /\ LastFrame.stream_id \notin DOMAIN stream_data']_vars

(***************************************************************************)
(* C27, amended: when fin(s,0) is the first frame of s, its record is      *)
(* removed and its channel closed in the same step; when (s,0,p) is the    *)
(* next frame of s, it is handled as the first frame of a new stream: a    *)
(* second channel is made and its receiver sent, p is pushed on it, the    *)
(* channel stays open with a record that has next_message_id 1 and no      *)
(* fin_message_id, and the first channel is as it was.                     *)
(***************************************************************************)
C27_FinFirstRetiresAtOnce ==
    /\ [][FinZeroFirst =>
             /\ LastFrame.stream_id \notin DOMAIN stream_data'
             /\ chans'[Len(chans')].closed]_vars
    /\ [][( /\ NewStreamStep
            /\ ~LastFrame.fin
            /\ LastFrame.message_id = 0
            /\ Len(StreamFrames(LastFrame.stream_id)) = 1
            /\ StreamFrames(LastFrame.stream_id)[1].fin
            /\ StreamFrames(LastFrame.stream_id)[1].message_id = 0 )
             => /\ ChannelMade
                /\ pc' = "listen"
                /\ ~chans'[Len(chans')].closed
                /\ chans'[Len(chans')].queue = <<LastFrame.message>>
                /\ LastFrame.stream_id \in DOMAIN stream_data'
                /\ stream_data'[LastFrame.stream_id] =
                       [NewStreamData(Len(chans')) EXCEPT !.next_message_id = 1]]_vars

\* fin(s,0) came first, then (s,0): s has a closed channel with the fin's
\* message and an open one with the second message
C27_Witness ==
    /\ Len(fed) = 2
    /\ fed[1].fin /\ fed[1].message_id = 0
    /\ ~fed[2].fin /\ fed[2].message_id = 0
    /\ fed[2].stream_id = fed[1].stream_id
    /\ Len(chans) = 2
    /\ chans[1].closed /\ Sends(1)[1].message = 1
    /\ ~chans[2].closed /\ Sends(2)[1].message = 2

(***************************************************************************)
(* C28: when the first frame of a new stream comes while the channel of    *)
(* receivers is full, the handler does not abort: it is still running      *)
(* after the step.                                                         *)
(***************************************************************************)
C28_AnnounceBackPressure ==
    [][( /\ FrameStep
         /\ pc = "listen"
         /\ LastFrame.stream_id \notin DOMAIN stream_data
         /\ ~AnnounceOk(Handler) )
          => pc' = "listen"]_vars

(***************************************************************************)
(* C29: a frame of a stream id that had a channel before and has no record *)
(* now is handled as the first frame of a new stream: a new channel is     *)
(* made and its receiver sent, the channels of the earlier records are as  *)
(* they were, and the frame is handled on a record that starts with        *)
(* next_message_id 0, no fin_message_id and an empty buffer. As for any    *)
(* first frame, the handler panics when the receiver cannot be sent.       *)
(***************************************************************************)
C29_RetiredStartsAnew ==
    [][( /\ FrameStep
         /\ pc = "listen"
         /\ LastFrame.stream_id \notin DOMAIN stream_data
         /\ ChannelsOf(LastFrame.stream_id) # {} )
          => LET s == LastFrame.stream_id
                 id == LastFrame.message_id
                 c == Len(chans')
             IN  IF ~AnnounceOk(Handler)
                 THEN pc' = "panicked" /\ chans' = chans /\ stream_data' = stream_data
                 ELSE
                 /\ ChannelMade
                 /\ pc' = "listen"
                 /\ IF id = 0
                    THEN /\ SelectSeq(chans'[c].log, IsSend) = <<SendEvent(LastFrame)>>
                         /\ IF LastFrame.fin
                            THEN chans'[c].closed /\ s \notin DOMAIN stream_data'
                            ELSE /\ ~chans'[c].closed
                                 /\ s \in DOMAIN stream_data'
                                 /\ stream_data'[s] =
                                        [NewStreamData(c) EXCEPT !.next_message_id = 1]
                    ELSE /\ SelectSeq(chans'[c].log, IsSend) = <<>>
                         /\ ~chans'[c].closed
                         /\ s \in DOMAIN stream_data'
                         /\ stream_data'[s] =
                                [NewStreamData(c) EXCEPT
                                    !.max_message_id = id,
                                    !.fin_message_id = IF LastFrame.fin THEN id ELSE None,
                                    !.message_buffer = MapInsert(EmptyMap, id, LastFrame)]]_vars

\* the first record of s was retired by fin(s,0); the next frame of s, with
\* id 2, waits in the buffer of a second record
C29_Witness ==
    \E s \in DOMAIN stream_data :
        /\ Cardinality(ChannelsOf(s)) = 2
        /\ stream_data[s].next_message_id = 0
        /\ DOMAIN stream_data[s].message_buffer = {2}
        /\ Sends(stream_data[s].sender) = <<>>

(***************************************************************************)
(* C30: a record goes forward only: while it is in the map a               *)
(* fin_message_id that is set stays set, it leaves the map only with its   *)
(* channel closed on a fin_message_id, and a record is made, changed or    *)
(* removed only by the handling of a frame of its stream.                  *)
(***************************************************************************)
C30_ForwardOnly ==
    [][\A s \in Streams :
          /\ (SameRecord(s) /\ stream_data[s].fin_message_id # None)
                => stream_data'[s].fin_message_id # None
          /\ (s \in DOMAIN stream_data /\ ~SameRecord(s))
                => /\ s \notin DOMAIN stream_data'
                   /\ LET log == chans'[stream_data[s].sender].log
                      IN  /\ IsClose(log[Len(log)])
                          /\ log[Len(log)].fin_message_id # None
          /\ ( \/ (s \in DOMAIN stream_data) # (s \in DOMAIN stream_data')
               \/ SameRecord(s) /\ stream_data'[s] # stream_data[s] )
                => /\ FrameStep
                   /\ pc = "listen"
                   /\ LastFrame.stream_id = s]_vars

\* a record whose fin_message_id was set by its first frame has handled a
\* second frame and is in the map with the fin_message_id
C30_Witness ==
    \E s \in DOMAIN stream_data :
        /\ Len(StreamFrames(s)) = 2
        /\ StreamFrames(s)[1].fin
        /\ ~StreamFrames(s)[2].fin
        /\ stream_data[s].fin_message_id = StreamFrames(s)[1].message_id
        /\ stream_data[s].next_message_id = 1

\* the largest message id among the frames of stream s taken so far
LargestSeen(s) ==
    LET frames == StreamFrames(s)
    IN  CHOOSE m \in MessageIds :
            /\ \E i \in 1..Len(frames) : frames[i].message_id = m
            /\ \A i \in 1..Len(frames) : frames[i].message_id <= m

(***************************************************************************)
(* C31: max_message_id of a record is the largest message_id of the frames *)
(* of its stream handled since the record was made, dropped ones included: *)
(* the frame that makes the record sets it to its own id, and every later  *)
(* frame of the stream raises it to its id when that is larger. For a      *)
(* stream that has had one record only, it is the largest id taken from    *)
(* the input for the stream.                                               *)
(***************************************************************************)
C31_MaxIsLargestSeen ==
    /\ [][( /\ FrameStep
            /\ pc = "listen"
            /\ LastFrame.stream_id \in DOMAIN stream_data' )
             => LET s == LastFrame.stream_id
                    before == IF s \in DOMAIN stream_data
                              THEN stream_data[s].max_message_id ELSE 0
                IN  stream_data'[s].max_message_id =
                        IF before < LastFrame.message_id
                        THEN LastFrame.message_id ELSE before]_vars
    /\ [](pc = "listen" =>
             \A s \in DOMAIN stream_data :
                 Cardinality(ChannelsOf(s)) = 1
                     => stream_data[s].max_message_id = LargestSeen(s))

\* (s,0) was pushed, fin(s,0) and (s,2) were dropped: max_message_id is 2
C31_Witness ==
    \E s \in DOMAIN stream_data :
        /\ stream_data[s].max_message_id = 2
        /\ stream_data[s].fin_message_id = 0
        /\ stream_data[s].next_message_id = 1
        /\ DOMAIN stream_data[s].message_buffer = {}

\* every push of the histories, as <<channel, position among the pushes>>
AllSends == {p \in Channels \X (1..MaxFrames) : p[2] <= Len(Sends(p[1]))}

(***************************************************************************)
(* C33: the message pushed at position i of a channel (from 0) is the      *)
(* message of a frame taken from the input, of the stream of the channel   *)
(* and with message_id i; no frame is pushed twice, on one channel or on   *)
(* two; and what waits in a channel is the last of what was pushed on it.  *)
(***************************************************************************)
C33_PayloadIntegrity ==
    /\ \A c \in Channels :
           /\ \A i \in 1..Len(Sends(c)) :
                  LET e == Sends(c)[i]
                  IN  /\ e.message \in 1..Len(fed)
                      /\ fed[e.message].stream_id = chans[c].stream_id
                      /\ fed[e.message].message_id = i - 1
                      /\ fed[e.message].fin = e.fin
           /\ Len(chans[c].queue) <= Len(Sends(c))
           /\ \A k \in 1..Len(chans[c].queue) :
                  chans[c].queue[k] =
                      Sends(c)[Len(Sends(c)) - Len(chans[c].queue) + k].message
    /\ \A p, q \in AllSends :
           Sends(p[1])[p[2]].message = Sends(q[1])[q[2]].message => p = q

\* both streams have had a message pushed, and one stream a second one out
\* of its buffer
C33_Witness ==
    /\ \A s \in Streams : \E c \in ChannelsOf(s) : Sends(c) # <<>>
    /\ \E c \in Channels :
           /\ Len(Sends(c)) = 2
           /\ Sends(c)[2].message < Sends(c)[1].message

(***************************************************************************)
(* C34: the message of a frame with the fin flag is pushed like any other, *)
(* at the position of its message_id, and it is the last message pushed on *)
(* its channel: the entry that follows it in the channel's history is the  *)
(* closing of the channel.                                                 *)
(***************************************************************************)
C34_FinMessageLast ==
    \A c \in Channels :
        \A j \in 1..Len(chans[c].log) :
            (IsSend(chans[c].log[j]) /\ chans[c].log[j].fin)
                => /\ fed[chans[c].log[j].message].fin
                   /\ fed[chans[c].log[j].message].message_id = chans[c].log[j].message_id
                   /\ j < Len(chans[c].log)
                   /\ IsClose(chans[c].log[j + 1])

(***************************************************************************)
(* C35: the handling of a frame of one stream leaves every other stream    *)
(* as it was: its record, when it has one, and all its channels.           *)
(***************************************************************************)
C35_OtherStreamsUntouched ==
    [][FrameStep =>
          \A b \in Streams \ {LastFrame.stream_id} :
              /\ (b \in DOMAIN stream_data) = (b \in DOMAIN stream_data')
              /\ b \in DOMAIN stream_data => stream_data'[b] = stream_data[b]
              /\ \A c \in ChannelsOf(b) : chans'[c] = chans[c]]_vars

\* the last frame closed the channel of its stream and removed the record
\* while the other stream has a record with a message in its buffer
C35_Witness ==
    \E a, b \in Streams :
        /\ Len(fed) = 3
        /\ fed[3].stream_id = a
        /\ a \notin DOMAIN stream_data
        /\ \E c \in ChannelsOf(a) : chans[c].closed
        /\ b \in DOMAIN stream_data
        /\ DOMAIN stream_data[b].message_buffer # {}

(***************************************************************************)
(* C36: a record leaves the map with an empty buffer: every message that   *)
(* was in its buffer before the step that removes it has been pushed on    *)
(* its channel in that step.                                               *)
(***************************************************************************)
C36_RemovedWithEmptyBuffer ==
    [][\A s \in DOMAIN stream_data :
          s \notin DOMAIN stream_data'
              => \A id \in DOMAIN stream_data[s].message_buffer :
                     \E i \in 1..Len(NewEvents(stream_data[s].sender)) :
                         /\ IsSend(NewEvents(stream_data[s].sender)[i])
                         /\ NewEvents(stream_data[s].sender)[i].message
                                = stream_data[s].message_buffer[id].message]_vars

\* a channel was closed by the step that pushed a message out of the buffer
C36_Witness ==
    \E c \in Channels :
        /\ chans[c].closed
        /\ Len(Sends(c)) = 2
        /\ Sends(c)[2].message < Sends(c)[1].message
        /\ chans[c].stream_id \notin DOMAIN stream_data

\* the channel made last for stream s, which has one
LastChannelOf(s) ==
    CHOOSE c \in ChannelsOf(s) : \A d \in ChannelsOf(s) : d <= c

(***************************************************************************)
(* C37: a stream id has a record in the map exactly when the channel made  *)
(* last for it is not closed, and the record holds the sender of that      *)
(* channel; a stream id without any channel has no record. The close of a  *)
(* channel and the removal of its record happen in one step.               *)
(***************************************************************************)
C37_RecordIffOpen ==
    \A s \in Streams :
        IF ChannelsOf(s) = {}
        THEN s \notin DOMAIN stream_data
        ELSE /\ (s \in DOMAIN stream_data) = ~chans[LastChannelOf(s)].closed
             /\ s \in DOMAIN stream_data
                    => stream_data[s].sender = LastChannelOf(s)

\* one stream has its second record and an open channel, the other has a
\* closed channel and no record
C37_Witness ==
    \E s, t \in Streams :
        /\ Cardinality(ChannelsOf(s)) = 2
        /\ s \in DOMAIN stream_data
        /\ ~chans[LastChannelOf(s)].closed
        /\ ChannelsOf(t) # {}
        /\ t \notin DOMAIN stream_data

\* no consumer has dropped a per-stream receiver
ReceiversHeld == \A c \in Channels : ~chans[c].rx_dropped

\* how many keys id + 1, id + 2, ... without a gap the buffer holds
RECURSIVE ConsecutiveAfter(_, _)
ConsecutiveAfter(buffer, id) ==
    IF id + 1 \in DOMAIN buffer THEN 1 + ConsecutiveAfter(buffer, id + 1) ELSE 0

\* every push that the handling of frame would make finds fewer than
\* CHANNEL_BUFFER_LENGTH messages waiting in the channel
PushRoom(frame) ==
    IF frame.stream_id \in DOMAIN stream_data
    THEN LET data == stream_data[frame.stream_id]
         IN  frame.message_id = data.next_message_id
                 => Len(chans[data.sender].queue) + 1
                        + ConsecutiveAfter(data.message_buffer, frame.message_id)
                            <= CHANNEL_BUFFER_LENGTH
    ELSE frame.message_id = 0 => 1 <= CHANNEL_BUFFER_LENGTH

====
